---- MODULE Spec2Model ----
(***************************************************************************)
(* A model of src/app.py, the EcoTrail T1D planner: the Trend Analyzer     *)
(* (calculate_trend, get_last_fuel_amount), the Plan Generator             *)
(* (generate_plan), the commit (execute_update) and the three-step         *)
(* Streamlit script that drives them through st.session_state.            *)
(*                                                                         *)
(* Text is a sequence of symbols.  A symbol is one character, or a fixed   *)
(* piece of boilerplate that holds no character of the FUEL pattern's      *)
(* interest and is never taken apart.  Dates are proleptic Gregorian       *)
(* ordinals (datetime.date.toordinal), so weekday() is computed, not       *)
(* assumed.                                                                *)
(*                                                                         *)
(* Three specifications share the definitions:                             *)
(*   SpecPlan   generate_plan for every reference date `today`             *)
(*   SpecTrend  calculate_trend over activity lists and service answers    *)
(*   Spec       the script's reruns over st.session_state and the calendar *)
(***************************************************************************)
EXTENDS Integers, Sequences, FiniteSets, TLC

VARIABLES
  \* ---- generate_plan (SpecPlan)
  cutoff_date,        \* dt.date.today() read by generate_plan
  plan_fuel,          \* the final_fuel_g argument
  events,             \* the list generate_plan returned last
  prev_events,        \* the list it returned the run before
  plan_runs,          \* how many times generate_plan ran (0, 1, 2)
  \* ---- calculate_trend (SpecTrend)
  activities,         \* the list fetch_recent_activities returned
  relevant_runs,      \* calculate_trend's relevant_runs
  t_pc,               \* where calculate_trend stands
  last_run,           \* get_last_fuel_amount's last_run
  description,        \* get_last_fuel_amount's description
  cal_events,         \* what fetch_events_for_date answered
  cal_asked,          \* the date string it was asked for (0: not asked)
  current_fuel,       \* calculate_trend's current_fuel
  drop_rates,         \* calculate_trend's drop_rates, as <<num, den>> pairs
  run_idx,            \* index of the next run of relevant_runs[:3]
  fetched,            \* ids handed to fetch_streams, in order
  trend_result,       \* the returned triple, or NoResult
  \* ---- the script and the calendar (Spec)
  analysis_complete,  \* st.session_state.analysis_complete
  ready_to_upload,    \* st.session_state.ready_to_upload
  ss_avg_trend,       \* st.session_state.avg_trend
  ss_current_fuel,    \* st.session_state.current_fuel
  ss_found_data,      \* st.session_state.found_data
  final_fuel,         \* st.session_state.final_fuel
  pc,                 \* where the script run stands
  pressed,            \* the widget that triggered this run
  shown,              \* the decision buttons are on the page
  suggested,          \* STEP 2's suggested, as last rendered
  now,                \* dt.datetime.now(), [date, hour]
  calendar,           \* the service's calendar: a set of events
  commit,             \* the record of the last STEP 3
  fresh_analysis,     \* an Analyze completed since the last STEP 3
  fresh_decision      \* a decision set final_fuel since the last STEP 3

plan_vars == <<cutoff_date, plan_fuel, events, prev_events, plan_runs>>
trend_vars == <<activities, relevant_runs, t_pc, last_run, description,
                cal_events, cal_asked, current_fuel, drop_rates, run_idx,
                fetched, trend_result>>
app_vars == <<analysis_complete, ready_to_upload, ss_avg_trend,
              ss_current_fuel, ss_found_data, final_fuel, pc, pressed, shown,
              suggested, now, calendar, commit, fresh_analysis,
              fresh_decision>>
vars == <<plan_vars, trend_vars, app_vars>>

(***************************************************************************)
(* USER CONFIGURATION (app.py 14-26)                                       *)
(***************************************************************************)
RACE_DISTANCE_KM == 16
PLAN_LENGTH_WEEKS == 18
CURRENT_LONG_RUN_KM == 8
USER_LTHR == 169
CRASH_DROP_RATE == -3
SPIKE_RISE_RATE == 3
DEFAULT_CARBS_G == 10
PLAN_PREFIX == <<"e", "c", "o", "1", "6">>

(***************************************************************************)
(* datetime.date: ordinals and weekdays                                    *)
(***************************************************************************)
IsLeap(y) == (y % 4 = 0) /\ ((y % 100 # 0) \/ (y % 400 = 0))

DaysBeforeYear(y) ==
  LET p == y - 1 IN p * 365 + (p \div 4) - (p \div 100) + (p \div 400)

DaysInMonth(y, m) ==
  IF m = 2 THEN (IF IsLeap(y) THEN 29 ELSE 28)
  ELSE IF m \in {4, 6, 9, 11} THEN 30 ELSE 31

RECURSIVE DaysBeforeMonth(_, _)
DaysBeforeMonth(y, m) ==
  IF m = 1 THEN 0 ELSE DaysBeforeMonth(y, m - 1) + DaysInMonth(y, m - 1)

ToOrdinal(y, m, d) == DaysBeforeYear(y) + DaysBeforeMonth(y, m) + d

\* date.weekday(): Monday is 0, Sunday is 6
Weekday(ord) == (ord + 6) % 7

RACE_DATE == ToOrdinal(2026, 6, 13)

(***************************************************************************)
(* Text helpers                                                            *)
(***************************************************************************)
DigitChar == <<"0", "1", "2", "3", "4", "5", "6", "7", "8", "9">>

\* str(n) for n >= 0: the decimal digits, most significant first
RECURSIVE Digits(_)
Digits(n) ==
  IF n < 10 THEN <<DigitChar[n + 1]>>
  ELSE Digits(n \div 10) \o <<DigitChar[(n % 10) + 1]>>

\* f"{n:02d}"
Pad2(n) == IF n < 10 THEN <<"0">> \o Digits(n) ELSE Digits(n)

\* math.floor(a / b * 100) and math.ceil(a / b * 100) for a, b > 0
FloorPct(a, b) == (a * 100) \div b
CeilPct(a, b) == ((a * 100) + b - 1) \div b

(***************************************************************************)
(* GENERATION FUNCTIONS (app.py 160-256)                                   *)
(***************************************************************************)
bpm_to_lthr_pct(bpm_range, lthr) ==
  Digits(FloorPct(bpm_range[1], lthr)) \o <<"-">>
    \o Digits(CeilPct(bpm_range[2], lthr)) \o <<"% LTHR">>

format_step(duration_str, bpm_range, note_prefix) ==
  LET step_core ==
        duration_str \o <<" ">> \o bpm_to_lthr_pct(bpm_range, USER_LTHR)
          \o <<" (">> \o Digits(bpm_range[1]) \o <<"-">>
          \o Digits(bpm_range[2]) \o <<" bpm)">>
  IN IF note_prefix # <<>> THEN note_prefix \o <<" ">> \o step_core
     ELSE step_core

RECURSIVE StepLines(_)
StepLines(steps) ==
  IF steps = <<>> THEN <<>>
  ELSE <<"- ">> \o Head(steps) \o <<"\n">> \o StepLines(Tail(steps))

format_workout_text(display_title, steps, repeats) ==
  display_title
    \o <<"\n", "\n", "Warmup\n", "- 10m 66-77% LTHR (113-131 bpm)\n", "\n">>
    \o (IF repeats > 1 THEN <<"Main set ">> \o Digits(repeats) \o <<"x\n">>
        ELSE <<"Main set\n">>)
    \o StepLines(steps)
    \o <<"\n", "Cooldown\n", "- 5m 56-66% LTHR (95-112 bpm)\n">>

\* f"PUMP OFF - FUEL: {final_fuel_g}g every 10 minutes"
StrategyText(final_fuel_g) ==
  <<"PUMP OFF - ", "F", "U", "E", "L", ":", " ">> \o Digits(final_fuel_g)
    \o <<"g", " every 10 minutes">>

\* f"{PLAN_PREFIX}-{day}-{week}"
ExternalIdLastDigit(day, week) ==
  PLAN_PREFIX \o <<"-">> \o day \o <<"-">> \o Digits(week % 10)

ExternalId(day, week) == PLAN_PREFIX \o <<"-">> \o day \o <<"-">> \o Digits(week)

RaceWeekMonday == RACE_DATE - Weekday(RACE_DATE)
PlanStart == RaceWeekMonday - 7 * (PLAN_LENGTH_WEEKS - 1)
WeekStart(week) == PlanStart + (week - 1) * 7

\* dt.datetime.combine(d_date, dt.time(12, 0))
Noon(d_date) == [date |-> d_date, hour |-> 12]

WorkoutEvent(start, name, desc, ext) ==
  [start_date_local |-> start, name |-> name, description |-> desc,
   external_id |-> ext]

\* the test each slot applies: d_date >= cutoff_date
EmitStrict(d_date, cutoff) == d_date > cutoff

Emit(d_date, cutoff) == d_date >= cutoff

TueEvent(week, strategy_text) ==
  LET odd == week % 2 # 0
      name == <<"W">> \o Pad2(week)
                \o (IF odd THEN <<" ", "T", "u", "e", " ", "Tempo", " ">>
                    ELSE <<" ", "T", "u", "e", " ", "Hills", " ">>)
                \o PLAN_PREFIX
      reps == IF odd THEN 3 + ((week * 3) \div 18) ELSE 6
      steps == IF odd
               THEN <<format_step(<<"8m">>, <<155, 168>>, <<>>),
                      format_step(<<"2m">>, <<95, 112>>, <<>>)>>
               ELSE <<format_step(<<"2m">>, <<155, 168>>, <<"Uphill">>),
                      format_step(<<"2m">>, <<95, 112>>, <<"Downhill">>)>>
  IN WorkoutEvent(Noon(WeekStart(week) + 1), name,
                  format_workout_text(strategy_text, steps, reps),
                  ExternalId(<<"t", "u", "e">>, week))

ThuEvent(week, strategy_text) ==
  LET name == <<"W">> \o Pad2(week) \o <<" ", "T", "h", "u", " ", "Easy", " ">>
                \o PLAN_PREFIX
      dur == 40 + ((week * 20) \div 18)
  IN WorkoutEvent(Noon(WeekStart(week) + 3), name,
                  format_workout_text(strategy_text,
                    <<format_step(Digits(dur) \o <<"m">>, <<113, 131>>, <<>>)>>, 1),
                  ExternalId(<<"t", "h", "u">>, week))

SatEvent(week, strategy_text) ==
  LET name == <<"W">> \o Pad2(week)
                \o <<" ", "S", "a", "t", " ", "Bonus (Optional)", " ">>
                \o PLAN_PREFIX
  IN WorkoutEvent(Noon(WeekStart(week) + 5), name,
                  format_workout_text(strategy_text,
                    <<format_step(<<"30m">>, <<95, 112>>, <<>>)>>, 1),
                  ExternalId(<<"s", "a", "t">>, week))

\* lines 236-248: the Sunday long run's distance and suffix
SunLongBadOrder(week) ==
  IF week % 4 = 0
    THEN [km |-> CURRENT_LONG_RUN_KM, suffix |-> <<" [RECOVERY]">>]
  ELSE IF week > PLAN_LENGTH_WEEKS - 2
    THEN [km |-> (RACE_DISTANCE_KM * 5) \div 10, suffix |-> <<" [TAPER]">>]
  ELSE IF week = PLAN_LENGTH_WEEKS - 2
    THEN [km |-> RACE_DISTANCE_KM, suffix |-> <<" [RACE TEST]">>]
  ELSE [km |-> CURRENT_LONG_RUN_KM
                 + (((RACE_DISTANCE_KM - CURRENT_LONG_RUN_KM) * (week - 1)) \div 15),
        suffix |-> <<>>]

SunLong(week) ==
  IF week > PLAN_LENGTH_WEEKS - 2
    THEN [km |-> (RACE_DISTANCE_KM * 5) \div 10, suffix |-> <<" [TAPER]">>]
  ELSE IF week = PLAN_LENGTH_WEEKS - 2
    THEN [km |-> RACE_DISTANCE_KM, suffix |-> <<" [RACE TEST]">>]
  ELSE IF week % 4 = 0
    THEN [km |-> CURRENT_LONG_RUN_KM, suffix |-> <<" [RECOVERY]">>]
  ELSE LET raw == CURRENT_LONG_RUN_KM
                    + (((RACE_DISTANCE_KM - CURRENT_LONG_RUN_KM) * (week - 1)) \div 15)
       IN [km |-> IF raw > RACE_DISTANCE_KM THEN RACE_DISTANCE_KM ELSE raw,
           suffix |-> <<>>]

SunEvent(week, strategy_text) ==
  LET lr == SunLong(week)
      name == <<"W">> \o Pad2(week) \o <<" ", "S", "u", "n", " ", "LR", " (">>
                \o Digits(lr.km) \o <<"km)">> \o lr.suffix \o <<" ">>
                \o PLAN_PREFIX
  IN WorkoutEvent(Noon(WeekStart(week) + 6), name,
                  format_workout_text(strategy_text \o <<" (Trail)">>,
                    <<format_step(Digits(lr.km) \o <<"km">>, <<120, 145>>, <<>>)>>, 1),
                  ExternalId(<<"s", "u", "n">>, week))

\* one pass of the for loop's body: each slot's event is appended when its
\* date passes the cutoff
WeekEvents(week, final_fuel_g, cutoff) ==
  LET strategy_text == StrategyText(final_fuel_g)
  IN (IF Emit(WeekStart(week) + 1, cutoff)
        THEN <<TueEvent(week, strategy_text)>> ELSE <<>>)
     \o (IF Emit(WeekStart(week) + 3, cutoff)
           THEN <<ThuEvent(week, strategy_text)>> ELSE <<>>)
     \o (IF Emit(WeekStart(week) + 5, cutoff)
           THEN <<SatEvent(week, strategy_text)>> ELSE <<>>)
     \o (IF Emit(WeekStart(week) + 6, cutoff)
           THEN <<SunEvent(week, strategy_text)>> ELSE <<>>)

RECURSIVE PlanFrom(_, _, _)
PlanFrom(week, final_fuel_g, cutoff) ==
  IF week > PLAN_LENGTH_WEEKS THEN <<>>
  ELSE WeekEvents(week, final_fuel_g, cutoff)
         \o PlanFrom(week + 1, final_fuel_g, cutoff)

\* generate_plan(final_fuel_g) with dt.date.today() = cutoff
generate_plan(final_fuel_g, cutoff) == PlanFrom(1, final_fuel_g, cutoff)

(***************************************************************************)
(* SpecPlan: generate_plan, run and run again, for every `today`           *)
(***************************************************************************)
TodayMargin == 2
MaxFuelSteps == 2

PlanEnd == PlanStart + 7 * PLAN_LENGTH_WEEKS - 1
TodaySet == (PlanStart - TodayMargin) .. (PlanEnd + TodayMargin)
FuelChoices == {5 * k : k \in 0 .. MaxFuelSteps}

PlanIdle ==
  /\ cutoff_date = PlanStart
  /\ plan_fuel = DEFAULT_CARBS_G
  /\ events = <<>>
  /\ prev_events = <<>>
  /\ plan_runs = 0

PlanInit ==
  /\ cutoff_date \in TodaySet
  /\ plan_fuel = DEFAULT_CARBS_G
  /\ events = <<>>
  /\ prev_events = <<>>
  /\ plan_runs = 0

\* new_events = generate_plan(final_fuel), on the same day as the run before
GeneratePlan ==
  \E f \in FuelChoices :
    /\ plan_fuel' = f
    /\ prev_events' = events
    /\ events' = generate_plan(f, cutoff_date)
    /\ plan_runs' = IF plan_runs < 2 THEN plan_runs + 1 ELSE 2
    /\ UNCHANGED cutoff_date
    /\ UNCHANGED <<trend_vars, app_vars>>
(***************************************************************************)
(* Values the external service hands back                                  *)
(*                                                                         *)
(* A JSON field is Str(text), Null (JSON null) or Absent (no such key).    *)
(* A stream sample is Num(n) or NoSample (JSON null).                      *)
(***************************************************************************)
Str(text) == [k |-> "str", v |-> text]
Null == [k |-> "null"]
Absent == [k |-> "absent"]
Num(n) == [k |-> "num", v |-> n]
NoSample == [k |-> "null"]

\* a start_date_local such as "2026-03-01T17:00:00"; strings of this shape
\* compare as (date, time of day) does
Stamp(date, hour) == [date |-> date, hour |-> hour]
StampLess(a, b) == a.date < b.date \/ (a.date = b.date /\ a.hour < b.hour)

\* start_date_local.split('T')[0]
DatePart(stamp) == stamp.date

(***************************************************************************)
(* str.lower(), `in`, and re.search(r"FUEL:\s*(\d+)g", text, IGNORECASE)   *)
(***************************************************************************)
Lower(c) ==
  CASE c = "E" -> "e" [] c = "C" -> "c" [] c = "O" -> "o" [] c = "F" -> "f"
    [] c = "U" -> "u" [] c = "L" -> "l" [] c = "G" -> "g" [] c = "R" -> "r"
    [] c = "W" -> "w" [] c = "T" -> "t" [] c = "S" -> "s" [] c = "Y" -> "y"
    [] OTHER -> c

\* needle.lower() in text.lower()
ContainsLower(needle, text) ==
  \E i \in 1 .. (Len(text) - Len(needle) + 1) :
    \A k \in 1 .. Len(needle) : Lower(text[i + k - 1]) = Lower(needle[k])

IsSpace(c) == c \in {" ", "\n", "\t"}
IsDigit(c) == c \in {"0", "1", "2", "3", "4", "5", "6", "7", "8", "9"}
DigitValue(c) == CHOOSE n \in 0 .. 9 : DigitChar[n + 1] = c

\* the first index >= i of text that is not matched by the class
RECURSIVE SkipSpaces(_, _)
SkipSpaces(text, i) ==
  IF i <= Len(text) /\ IsSpace(text[i]) THEN SkipSpaces(text, i + 1) ELSE i

RECURSIVE SkipDigits(_, _)
SkipDigits(text, i) ==
  IF i <= Len(text) /\ IsDigit(text[i]) THEN SkipDigits(text, i + 1) ELSE i

\* int(digits)
RECURSIVE ParseInt(_)
ParseInt(digits) ==
  IF digits = <<>> THEN 0
  ELSE 10 * ParseInt(SubSeq(digits, 1, Len(digits) - 1))
         + DigitValue(digits[Len(digits)])

FuelWord == <<"f", "u", "e", "l", ":">>
NoMatch == [found |-> FALSE, value |-> 0]

\* the match that starts at i, if there is one: "fuel:", any white space,
\* one or more digits, then "g"; all of it ignoring case
MatchAt(text, i) ==
  IF /\ i + Len(FuelWord) - 1 <= Len(text)
     /\ \A k \in 1 .. Len(FuelWord) : Lower(text[i + k - 1]) = FuelWord[k]
  THEN LET d0 == SkipSpaces(text, i + Len(FuelWord))
           d1 == SkipDigits(text, d0)
       IN IF d1 > d0 /\ d1 <= Len(text) /\ Lower(text[d1]) = "g"
          THEN [found |-> TRUE, value |-> ParseInt(SubSeq(text, d0, d1 - 1))]
          ELSE NoMatch
  ELSE NoMatch

\* re.search: the leftmost match, int(match.group(1))
RECURSIVE SearchFrom(_, _)
SearchFrom(text, i) ==
  IF i > Len(text) THEN NoMatch
  ELSE IF MatchAt(text, i).found THEN MatchAt(text, i)
  ELSE SearchFrom(text, i + 1)

FuelSearch(text) == SearchFrom(text, 1)

(***************************************************************************)
(* Rates: exact fractions <<numerator, denominator>>, denominator > 0      *)
(***************************************************************************)
Abs(n) == IF n < 0 THEN -n ELSE n

RECURSIVE Gcd(_, _)
Gcd(a, b) == IF b = 0 THEN a ELSE Gcd(b, a % b)

Frac(n, d) ==
  LET g == Gcd(Abs(n), d) IN IF n = 0 THEN <<0, 1>> ELSE <<n \div g, d \div g>>

FracAdd(a, b) == Frac(a[1] * b[2] + b[1] * a[2], a[2] * b[2])

RECURSIVE FracSum(_)
FracSum(rates) ==
  IF rates = <<>> THEN <<0, 1>> ELSE FracAdd(Head(rates), FracSum(Tail(rates)))

\* statistics.mean(drop_rates) if drop_rates else 0.0
MeanOrZero(rates) ==
  IF rates = <<>> THEN <<0, 1>>
  ELSE LET t == FracSum(rates) IN Frac(t[1], t[2] * Len(rates))

\* a < n and a > n for a fraction a and an integer n
FracLess(a, n) == a[1] < n * a[2]
FracMore(a, n) == a[1] > n * a[2]

(***************************************************************************)
(* HELPER FUNCTIONS (app.py 94-154)                                        *)
(***************************************************************************)
\* a.get('name', '')
NameOrEmpty(a) == IF a.name = Absent THEN Str(<<>>) ELSE a.name

\* lines 126-129: None has no lower(), so a null name raises
FilterRaises(acts) ==
  \E i \in DOMAIN acts : NameOrEmpty(acts[i]).k # "str"

IsRelevant(a) == ContainsLower(PLAN_PREFIX, NameOrEmpty(a).v)

RelevantRuns(acts) == SelectSeq(acts, IsRelevant)

\* sorted(activities, key=start_date_local, reverse=True): stable, so of two
\* equal keys the one that came first stays first
RECURSIVE InsertDesc(_, _)
InsertDesc(sorted, a) ==
  IF sorted = <<>> THEN <<a>>
  ELSE IF StampLess(Head(sorted).start_date_local, a.start_date_local)
       THEN <<a>> \o sorted
       ELSE <<Head(sorted)>> \o InsertDesc(Tail(sorted), a)

NotSorted(acts) == acts

RECURSIVE SortedDesc(_)
SortedDesc(acts) ==
  IF acts = <<>> THEN <<>>
  ELSE InsertDesc(SortedDesc(SubSeq(acts, 1, Len(acts) - 1)), acts[Len(acts)])

\* lines 102-105: the dose in the run's own description
DescriptionDose(desc) ==
  IF desc.k = "str" /\ desc.v # <<>> THEN FuelSearch(desc.v) ELSE NoMatch

\* event.get('name', '') and event.get('description', '')
EventName(e) == IF e.name = Absent THEN Str(<<>>) ELSE e.name
EventDescription(e) == IF e.description = Absent THEN Str(<<>>) ELSE e.description

\* lines 111-118, one event: "skip" (no prefix, or no FUEL in it), "hit" with
\* the dose, or "raise" (a null name has no lower(); null + " " is a TypeError)
CalendarEvent(e) ==
  IF EventName(e).k # "str" THEN [k |-> "raise"]
  ELSE IF ~ContainsLower(PLAN_PREFIX, EventName(e).v) THEN [k |-> "skip"]
  ELSE IF EventDescription(e).k # "str" THEN [k |-> "raise"]
  ELSE LET m == FuelSearch(EventDescription(e).v \o <<" ">> \o EventName(e).v)
       IN IF m.found THEN [k |-> "hit", v |-> m.value] ELSE [k |-> "skip"]

\* lines 111-120: the loop over the day's events
RECURSIVE CalendarDose(_)
CalendarDose(evs) ==
  IF evs = <<>> THEN [k |-> "hit", v |-> DEFAULT_CARBS_G]
  ELSE IF CalendarEvent(Head(evs)).k = "skip" THEN CalendarDose(Tail(evs))
  ELSE CalendarEvent(Head(evs))

\* lines 141-151, one run's streams: "skip", "rate" with the rate, or "raise"
\* (arithmetic on a null sample)
LastOfType(streams, types) ==
  LET hits == {i \in DOMAIN streams :
                 streams[i].k = "dict" /\ streams[i].type \in types}
  IN IF hits = {} THEN <<>>
     ELSE streams[CHOOSE i \in hits : \A j \in hits : j <= i].data

StreamRate(resp) ==
  IF resp.k # "list" \/ resp.v = <<>> THEN [k |-> "skip"]
  ELSE LET g_data == LastOfType(resp.v, {"bloodglucose", "glucose", "ga_smooth"})
           t_data == LastOfType(resp.v, {"time"})
       IN IF g_data = <<>> \/ t_data = <<>> \/ Len(t_data) <= 1
            THEN [k |-> "skip"]
          ELSE IF g_data[Len(g_data)].k # "num" \/ g_data[1].k # "num"
                  \/ t_data[Len(t_data)].k # "num" \/ t_data[1].k # "num"
            THEN [k |-> "raise"]
          ELSE LET delta == g_data[Len(g_data)].v - g_data[1].v
                   secs == t_data[Len(t_data)].v - t_data[1].v
               \* duration_hr > 0.2, duration_hr = secs / 3600
               IN IF secs * 10 > 2 * 3600
                  THEN [k |-> "rate", v |-> Frac(delta * 3600, secs)]
                  ELSE [k |-> "skip"]

(***************************************************************************)
(* SpecTrend: calculate_trend, one step per call to the service            *)
(*                                                                         *)
(* The list of activities is drawn at the start.  A field the code reads   *)
(* once (a run's description, the presence of its id and of its start      *)
(* timestamp) and each answer of the service (the day's events, a run's    *)
(* streams) is drawn where the code reads it.                              *)
(***************************************************************************)
MaxActs == 4

ActBaseDate == ToOrdinal(2026, 3, 1)

\* distinct start timestamps, two to a day: slot 1 is the earliest
SlotStamp(slot) == Stamp(ActBaseDate + (slot \div 2), 7 + 10 * (slot % 2))

NameSamples ==
  { Str(<<"R", "u", "n", " ", "E", "C", "O", "1", "6">>),
    Str(<<"R", "u", "n", " ", "e", "c", "o", "1", "7">>),
    Null }

Activity(slot, name) ==
  [id |-> 40 + slot, name |-> name, start_date_local |-> SlotStamp(slot)]

ActivityLists ==
  UNION { { [i \in 1 .. n |-> Activity(order[i], names[i])] :
              order \in {f \in [1 .. n -> 1 .. n] :
                           \A i, j \in 1 .. n : i # j => f[i] # f[j]},
              names \in [1 .. n -> NameSamples] } : n \in 0 .. MaxActs }

DescriptionSamples ==
  { Absent,
    Null,
    Str(<<"E", "a", "s", "y", ".", " ", "F", "U", "E", "L", ":", " ", "1", "5", "g", " ", "e", "v", "e", "r", "y", " ", "1", "0">>),
    Str(<<"f", "u", "e", "l", ":", "1", " ", "x", " ", "F", "u", "e", "l", ":", "\n", "3", "G">>),
    Str(<<"F", "U", "E", "L", ":", " ", "g", ",", " ", "n", "o", " ", "f", "u", "e", "l", " ", "7", "g">>) }

CalEvent(name, desc) == [name |-> name, description |-> desc]

\* answers of fetch_events_for_date: [] for a failed call or an empty day
CalendarSamples ==
  { <<>>,
    <<CalEvent(Str(<<"Y", "o", "g", "a">>), Str(<<"E", "a", "s", "y", ".", " ", "F", "U", "E", "L", ":", " ", "1", "5", "g", " ", "e", "v", "e", "r", "y", " ", "1", "0">>))>>,
    <<CalEvent(Str(TueEvent(3, StrategyText(15)).name),
               Str(TueEvent(3, StrategyText(15)).description))>>,
    <<CalEvent(Str(<<"E", "C", "O", "1", "6", " ", "f", "u", "e", "l", ":", " ", "1", "5", "g">>), Absent)>>,
    <<CalEvent(Str(<<"W", "0", "2", " ", "e", "c", "o", "1", "6">>), Str(<<"F", "U", "E", "L", ":", " ", "g", ",", " ", "n", "o", " ", "f", "u", "e", "l", " ", "7", "g">>)),
      CalEvent(Str(<<"7", "g", " ", "e", "c", "o", "1", "6", " ", "b", "i", "k", "e">>), Str(<<"F", "u", "e", "l", ":">>)),
      CalEvent(Str(<<"W", "0", "2", " ", "e", "c", "o", "1", "6">>), Str(<<"f", "u", "e", "l", ":", "1", " ", "x", " ", "F", "u", "e", "l", ":", "\n", "3", "G">>))>>,
    <<CalEvent(Str(<<"W", "0", "2", " ", "e", "c", "o", "1", "6">>), Null)>> }

Stream(type, data) == [k |-> "dict", type |-> type, data |-> data]
Listed(streams) == [k |-> "list", v |-> streams]

\* answers of fetch_streams: [] for a failed call
StreamSamples ==
  { Listed(<<>>),
    [k |-> "object"],
    \* 800 s, 9 -> 8: -4.5 an hour
    Listed(<<Stream("time", <<Num(0), Num(800)>>),
             Stream("glucose", <<Num(9), Num(8)>>)>>),
    \* an hour, 5 -> 9: +4 an hour; the later glucose stream is the one used
    Listed(<<Stream("bloodglucose", <<Num(7), Num(7)>>),
             [k |-> "other"],
             Stream("time", <<Num(0), Num(1800), Num(3600)>>),
             Stream("ga_smooth", <<Num(5), NoSample, Num(9)>>)>>),
    \* 600 s: too short
    Listed(<<Stream("time", <<Num(0), Num(600)>>),
             Stream("glucose", <<Num(9), Num(5)>>)>>),
    \* one time sample, no glucose data
    Listed(<<Stream("time", <<Num(0)>>), Stream("glucose", <<>>)>>),
    \* a gap in the sensor's readings at the end of the run
    Listed(<<Stream("time", <<Num(0), Num(3600)>>),
             Stream("glucose", <<Num(9), NoSample>>)>>) }

NoResult == [status |-> "none"]

TrendInit ==
  /\ activities \in ActivityLists
  /\ relevant_runs = <<>>
  /\ t_pc = "idle"
  /\ last_run = <<>>
  /\ description = <<>>
  /\ cal_events = <<>>
  /\ cal_asked = 0
  /\ current_fuel = DEFAULT_CARBS_G
  /\ drop_rates = <<>>
  /\ run_idx = 0
  /\ fetched = <<>>
  /\ trend_result = NoResult

TrendLocals == <<last_run, description, cal_events, cal_asked>>

Raise ==
  /\ t_pc' = "raised"
  /\ trend_result' = [status |-> "raised"]

\* lines 123-132: the filter, and the return when nothing matches
TrendStart ==
  /\ t_pc = "idle"
  /\ IF FilterRaises(activities)
       THEN Raise /\ UNCHANGED relevant_runs
     ELSE IF RelevantRuns(activities) = <<>>
       THEN /\ t_pc' = "returned"
            /\ trend_result' = [status |-> "ok", avg_trend |-> <<0, 1>>,
                                current_fuel |-> DEFAULT_CARBS_G,
                                found_data |-> FALSE]
            /\ UNCHANGED relevant_runs
     ELSE /\ t_pc' = "fuel"
          /\ relevant_runs' = RelevantRuns(activities)
          /\ UNCHANGED trend_result
  /\ UNCHANGED <<activities, TrendLocals, current_fuel, drop_rates, run_idx,
                 fetched>>
  /\ UNCHANGED <<plan_vars, app_vars>>

\* get_last_fuel_amount(api_key, relevant_runs), lines 94-120
GetLastFuel ==
  /\ t_pc = "fuel"
  /\ \E starts_present \in BOOLEAN, desc \in DescriptionSamples,
        evs \in CalendarSamples :
       IF ~starts_present
         THEN \* KeyError in the sort key
              Raise /\ UNCHANGED <<TrendLocals, current_fuel>>
       ELSE LET run == SortedDesc(relevant_runs)[1]
                own == DescriptionDose(desc)
                cal == CalendarDose(evs)
            IN /\ last_run' = run
               /\ description' = desc
               /\ IF own.found
                    THEN /\ current_fuel' = own.value
                         /\ t_pc' = "fuel_done"
                         /\ UNCHANGED <<cal_events, cal_asked, trend_result>>
                  ELSE /\ cal_events' = evs
                       /\ cal_asked' = DatePart(run.start_date_local)
                       /\ IF cal.k = "raise"
                            THEN Raise /\ UNCHANGED current_fuel
                          ELSE /\ current_fuel' = cal.v
                               /\ t_pc' = "fuel_done"
                               /\ UNCHANGED trend_result
  /\ UNCHANGED <<activities, relevant_runs, drop_rates, run_idx, fetched>>
  /\ UNCHANGED <<plan_vars, app_vars>>

\* line 134: back in calculate_trend, get_last_fuel_amount's locals are gone
FuelReturn ==
  /\ t_pc = "fuel_done"
  /\ t_pc' = "loop"
  /\ run_idx' = 1
  /\ last_run' = <<>>
  /\ description' = <<>>
  /\ cal_events' = <<>>
  /\ cal_asked' = 0
  /\ UNCHANGED <<activities, relevant_runs, current_fuel, drop_rates, fetched,
                 trend_result>>
  /\ UNCHANGED <<plan_vars, app_vars>>

\* relevant_runs[:3]
FirstThree(runs) == SubSeq(runs, 1, IF Len(runs) < 3 THEN Len(runs) ELSE 3)

\* lines 137-151: one pass of the loop over relevant_runs[:3]
FetchStream ==
  /\ t_pc = "loop"
  /\ run_idx <= Len(FirstThree(relevant_runs))
  /\ \E id_present \in BOOLEAN, resp \in StreamSamples :
       IF ~id_present
         THEN \* KeyError: run['id']
              Raise /\ UNCHANGED <<drop_rates, run_idx, fetched>>
       ELSE /\ fetched' = Append(fetched, FirstThree(relevant_runs)[run_idx].id)
            /\ IF StreamRate(resp).k = "raise"
                 THEN Raise /\ UNCHANGED <<drop_rates, run_idx>>
               ELSE /\ drop_rates' = IF StreamRate(resp).k = "rate"
                                     THEN Append(drop_rates, StreamRate(resp).v)
                                     ELSE drop_rates
                    /\ run_idx' = run_idx + 1
                    /\ UNCHANGED <<t_pc, trend_result>>
  /\ UNCHANGED <<activities, relevant_runs, TrendLocals, current_fuel>>
  /\ UNCHANGED <<plan_vars, app_vars>>

\* lines 153-154
TrendReturn ==
  /\ t_pc = "loop"
  /\ run_idx > Len(FirstThree(relevant_runs))
  /\ t_pc' = "returned"
  /\ trend_result' = [status |-> "ok", avg_trend |-> MeanOrZero(drop_rates),
                      current_fuel |-> current_fuel, found_data |-> TRUE]
  /\ UNCHANGED <<activities, relevant_runs, TrendLocals, current_fuel,
                 drop_rates, run_idx, fetched>>
  /\ UNCHANGED <<plan_vars, app_vars>>

NextTrend == TrendStart \/ GetLastFuel \/ FuelReturn \/ FetchStream \/ TrendReturn


TrendIdle ==
  /\ activities = <<>>
  /\ relevant_runs = <<>>
  /\ t_pc = "idle"
  /\ last_run = <<>>
  /\ description = <<>>
  /\ cal_events = <<>>
  /\ cal_asked = 0
  /\ current_fuel = DEFAULT_CARBS_G
  /\ drop_rates = <<>>
  /\ run_idx = 0
  /\ fetched = <<>>
  /\ trend_result = NoResult

(***************************************************************************)
(* STREAMLIT APP LAYOUT (app.py 293-361) and execute_update (258-271)      *)
(*                                                                         *)
(* Every user action reruns the script from the top with at most one       *)
(* button pressed; st.session_state outlives the run, also a run that an   *)
(* exception ends.  A session_state entry is Unset or Num(n); avg_trend is *)
(* Unset or a fraction.                                                    *)
(***************************************************************************)
MaxManual == 2

Unset == [k |-> "unset"]

\* what calculate_trend can hand to STEP 1: every result SpecTrend's steps
\* can build from the service's answers, or an exception
FuelOutcomes ==
  {DEFAULT_CARBS_G}
    \cup {DescriptionDose(d).value :
            d \in {x \in DescriptionSamples : DescriptionDose(x).found}}
    \cup {CalendarDose(c).v :
            c \in {x \in CalendarSamples : CalendarDose(x).k = "hit"}}

RateOutcomes ==
  {StreamRate(r).v : r \in {x \in StreamSamples : StreamRate(x).k = "rate"}}

TrendOutcomes ==
  {MeanOrZero(rs) : rs \in UNION {[1 .. n -> RateOutcomes] : n \in 0 .. 3}}

AnalysisOutcomes ==
  {[status |-> "ok", avg_trend |-> <<0, 1>>, current_fuel |-> DEFAULT_CARBS_G,
    found_data |-> FALSE]}
    \cup {[status |-> "ok", avg_trend |-> t, current_fuel |-> f,
           found_data |-> TRUE] : t \in TrendOutcomes, f \in FuelOutcomes}
    \cup {[status |-> "raised"]}

\* lines 317-331
SuggestedNoFloor(trend, current) ==
  IF FracLess(trend, CRASH_DROP_RATE) THEN current + 5
  ELSE IF FracMore(trend, SPIKE_RISE_RATE) THEN current - 5
  ELSE current

Suggested(trend, current) ==
  IF FracLess(trend, CRASH_DROP_RATE) THEN current + 5
  ELSE IF FracMore(trend, SPIKE_RISE_RATE)
    THEN (IF current > DEFAULT_CARBS_G THEN current - 5 ELSE current)
  ELSE current

\* format_iso_local(d): second precision, compared as (date, time of day)
format_iso_local(d) == <<d.date, d.hour>>
IsoLeq(a, b) == a[1] < b[1] \/ (a[1] = b[1] /\ a[2] <= b[2])

\* line 269: the payload entry of one event
PayloadEntry(ev) ==
  [category |-> "WORKOUT", type |-> "Run",
   start_date_local |-> format_iso_local(ev.start_date_local),
   name |-> ev.name, description |-> ev.description,
   external_id |-> Str(ev.external_id)]

Payload(evs) == {PayloadEntry(evs[i]) : i \in DOMAIN evs}

\* DELETE /athlete/0/events?oldest=&newest=&category=WORKOUT
InDeleteWindow(e, at) ==
  /\ e.category = "WORKOUT"
  /\ IsoLeq(format_iso_local(at), e.start_date_local)
  /\ IsoLeq(e.start_date_local,
            format_iso_local([date |-> at.date + 365, hour |-> at.hour]))

AfterDelete(cal, at) == {e \in cal : ~InDeleteWindow(e, at)}

\* POST /athlete/0/events/bulk?upsert=true: keyed by external_id
AfterUpsert(cal, payload) ==
  {e \in cal : \A p \in payload : p.external_id # e.external_id} \cup payload

\* the calendar before the session: empty, or an earlier upload of the plan
\* at the default dose and a workout entered by hand on Wednesday evening
HandEntered ==
  [category |-> "WORKOUT", type |-> "WeightTraining",
   start_date_local |-> <<RaceWeekMonday + 2, 18>>,
   name |-> <<"Gym">>, description |-> <<>>, external_id |-> Absent]

InitialCalendars ==
  { {},
    Payload(generate_plan(DEFAULT_CARBS_G, RaceWeekMonday)) \cup {HandEntered} }

\* the session runs on the morning of the Tuesday or of the Friday of the
\* race week
SessionTimes == {[date |-> RaceWeekMonday + d, hour |-> 9] : d \in {1, 4}}

NoCommit == [status |-> "none"]

AppInit ==
  /\ analysis_complete = FALSE
  /\ ready_to_upload = FALSE
  /\ ss_avg_trend = Unset
  /\ ss_current_fuel = Unset
  /\ ss_found_data = FALSE
  /\ final_fuel = Unset
  /\ pc = "wait"
  /\ pressed = "none"
  /\ shown = FALSE
  /\ suggested = Unset
  /\ now \in SessionTimes
  /\ calendar \in InitialCalendars
  /\ commit = NoCommit
  /\ fresh_analysis = FALSE
  /\ fresh_decision = FALSE

AppIdle ==
  /\ analysis_complete = FALSE
  /\ ready_to_upload = FALSE
  /\ ss_avg_trend = Unset
  /\ ss_current_fuel = Unset
  /\ ss_found_data = FALSE
  /\ final_fuel = Unset
  /\ pc = "wait"
  /\ pressed = "none"
  /\ shown = FALSE
  /\ suggested = Unset
  /\ now = [date |-> RaceWeekMonday + 1, hour |-> 9]
  /\ calendar = {}
  /\ commit = NoCommit
  /\ fresh_analysis = FALSE
  /\ fresh_decision = FALSE

Others == <<plan_vars, trend_vars>>

\* a user action: the script starts over; a decision button can be pressed
\* only while it is on the page
Rerun ==
  /\ pc = "wait"
  /\ \E p \in {"none", "analyze"}
               \cup (IF shown THEN {"accept", "keep", "manual"} ELSE {}) :
       pressed' = p
  /\ pc' = "step1"
  /\ shown' = FALSE
  /\ suggested' = Unset
  /\ commit' = NoCommit
  /\ UNCHANGED <<analysis_complete, ready_to_upload, ss_avg_trend,
                 ss_current_fuel, ss_found_data, final_fuel, now, calendar,
                 fresh_analysis, fresh_decision>>
  /\ UNCHANGED Others

\* lines 299-307, the button pressed
Step1Analyze ==
  /\ pc = "step1"
  /\ pressed = "analyze"
  /\ \E out \in AnalysisOutcomes :
       IF out.status = "raised"
         THEN \* calculate_trend raised: the run ends before line 303
              /\ pc' = "wait"
              /\ pressed' = "none"
              /\ UNCHANGED <<analysis_complete, ready_to_upload, ss_avg_trend,
                             ss_current_fuel, ss_found_data, fresh_analysis>>
       ELSE /\ ss_avg_trend' = out.avg_trend
            /\ ss_current_fuel' = Num(out.current_fuel)
            /\ ss_found_data' = out.found_data
            /\ analysis_complete' = TRUE
            /\ ready_to_upload' = FALSE
            /\ fresh_analysis' = TRUE
            /\ pc' = "step2"
            /\ UNCHANGED pressed
  /\ UNCHANGED <<final_fuel, shown, suggested, now, calendar, commit,
                 fresh_decision>>
  /\ UNCHANGED Others

\* line 299, the button not pressed
Step1Skip ==
  /\ pc = "step1"
  /\ pressed # "analyze"
  /\ pc' = "step2"
  /\ UNCHANGED <<analysis_complete, ready_to_upload, ss_avg_trend,
                 ss_current_fuel, ss_found_data, final_fuel, pressed, shown,
                 suggested, now, calendar, commit, fresh_analysis,
                 fresh_decision>>
  /\ UNCHANGED Others

\* lines 310-349: the panel is rendered, and the decision button that was
\* pressed, if any, sets final_fuel
Step2Decide ==
  /\ pc = "step2"
  /\ analysis_complete
  /\ LET current == ss_current_fuel.v
         sugg == Suggested(ss_avg_trend, current)
     IN /\ suggested' = Num(sugg)
        /\ \/ /\ pressed = "accept"
              /\ final_fuel' = Num(sugg)
              /\ ready_to_upload' = TRUE
              /\ fresh_decision' = TRUE
           \/ /\ pressed = "keep"
              /\ final_fuel' = Num(current)
              /\ ready_to_upload' = TRUE
              /\ fresh_decision' = TRUE
           \/ /\ pressed = "manual"
              \* number_input(min_value=0, value=suggested, step=1)
              /\ \E manual \in (0 .. MaxManual) \cup {sugg} :
                   /\ manual >= 0
                   /\ final_fuel' = Num(manual)
              /\ ready_to_upload' = TRUE
              /\ fresh_decision' = TRUE
           \/ /\ pressed \in {"none", "analyze"}
              /\ UNCHANGED <<final_fuel, ready_to_upload, fresh_decision>>
  /\ shown' = TRUE
  /\ pc' = "step3"
  /\ UNCHANGED <<analysis_complete, ss_avg_trend, ss_current_fuel,
                 ss_found_data, pressed, now, calendar, commit,
                 fresh_analysis>>
  /\ UNCHANGED Others

\* line 310 false: no panel, and a pressed decision button is not there to
\* be seen pressed
Step2Skip ==
  /\ pc = "step2"
  /\ ~analysis_complete
  /\ pc' = "step3"
  /\ UNCHANGED <<analysis_complete, ready_to_upload, ss_avg_trend,
                 ss_current_fuel, ss_found_data, final_fuel, pressed, shown,
                 suggested, now, calendar, commit, fresh_analysis,
                 fresh_decision>>
  /\ UNCHANGED Others

\* lines 352-361 with execute_update: the DELETE succeeds or not (its
\* exception is swallowed, its status not read), the POST succeeds, answers
\* an error status (not read) or raises (not caught: the run ends there)
Step3Commit ==
  /\ pc = "step3"
  /\ ready_to_upload
  /\ \E new_events \in {generate_plan(final_fuel.v, now.date)} :
       \E payload \in {Payload(new_events)} :
         \E deleted \in BOOLEAN, post \in {"ok", "error_status", "raise"} :
           LET cleared == IF deleted THEN AfterDelete(calendar, now) ELSE calendar
           IN /\ calendar' = IF post = "ok" THEN AfterUpsert(cleared, payload)
                             ELSE cleared
              /\ IF post = "raise"
                   THEN /\ commit' = [status |-> "raised", before |-> calendar,
                                      plan |-> payload]
                        /\ UNCHANGED <<ready_to_upload, analysis_complete>>
                 ELSE /\ commit' = [status |-> "done", before |-> calendar,
                                    plan |-> payload, count |-> Len(new_events)]
                      /\ ready_to_upload' = FALSE
                      /\ analysis_complete' = FALSE
  /\ fresh_analysis' = FALSE
  /\ fresh_decision' = FALSE
  /\ pc' = "wait"
  /\ pressed' = "none"
  /\ UNCHANGED <<ss_avg_trend, ss_current_fuel, ss_found_data, final_fuel,
                 shown, suggested, now>>
  /\ UNCHANGED Others

\* line 352 false
Step3Skip ==
  /\ pc = "step3"
  /\ ~ready_to_upload
  /\ pc' = "wait"
  /\ pressed' = "none"
  /\ UNCHANGED <<analysis_complete, ready_to_upload, ss_avg_trend,
                 ss_current_fuel, ss_found_data, final_fuel, shown,
                 suggested, now, calendar, commit, fresh_analysis,
                 fresh_decision>>
  /\ UNCHANGED Others

Next ==
  \/ Rerun
  \/ Step1Analyze
  \/ Step1Skip
  \/ Step2Decide
  \/ Step2Skip
  \/ Step3Commit
  \/ Step3Skip

(***************************************************************************)
(* Specifications                                                          *)
(***************************************************************************)
InitPlan == PlanInit /\ TrendIdle /\ AppIdle
NextPlan == GeneratePlan
SpecPlan == InitPlan /\ [][NextPlan]_vars

InitTrend == TrendInit /\ PlanIdle /\ AppIdle
SpecTrend == InitTrend /\ [][NextTrend]_vars

Init == AppInit /\ PlanIdle /\ TrendIdle
Spec == Init /\ [][Next]_vars

\* what STEP 1 draws from covers what calculate_trend's steps return
\* (checked under SpecTrend)
TrendResultInOutcomes ==
  trend_result.status # "none" => trend_result \in AnalysisOutcomes

(***************************************************************************)
(* Claims about generate_plan (SpecPlan)                                   *)
(***************************************************************************)
Weeks == 1 .. 18
SlotOffsets == {1, 3, 5, 6}
SlotDate(week, off) == PlanStart + 7 * (week - 1) + off
EventDates == {events[i].start_date_local.date : i \in DOMAIN events}

\* C1: generate_plan emits an event for a (week, slot) pair, week in 1..18 and
\* slot in {Tue +1, Thu +3, Sat +5, Sun +6}, if and only if the slot's date
\* (plan-start Monday + 7*(week-1) + offset) is on or after today; it emits
\* each such slot once, nothing else, and nothing dated before today.
C1_EmitsExactlyFutureSlots ==
  plan_runs > 0 =>
    /\ \A w \in Weeks, off \in SlotOffsets :
         (SlotDate(w, off) \in EventDates) <=> (SlotDate(w, off) >= cutoff_date)
    /\ \A i \in DOMAIN events :
         /\ events[i].start_date_local.date >= cutoff_date
         /\ \E w \in Weeks, off \in SlotOffsets :
              events[i].start_date_local.date = SlotDate(w, off)
    /\ Len(events) = Cardinality(EventDates)

\* a run on the day of a mid-plan Thursday slot: that slot is emitted, the
\* Tuesday before it is not
C1_Witness ==
  /\ plan_runs > 0
  /\ cutoff_date = SlotDate(9, 3)
  /\ events # <<>>
  /\ events[1].start_date_local.date = cutoff_date
  /\ Len(events) < 72

ExpectedKm(w) ==
  IF w \in {17, 18} THEN 8
  ELSE IF w = 16 THEN 16
  ELSE IF w \in {4, 8, 12} THEN 8
  ELSE 8 + ((8 * (w - 1)) \div 15)

ExpectedSuffix(w) ==
  IF w \in {17, 18} THEN <<" [TAPER]">>
  ELSE IF w = 16 THEN <<" [RACE TEST]">>
  ELSE IF w \in {4, 8, 12} THEN <<" [RECOVERY]">>
  ELSE <<>>

ExpectedSunName(w) ==
  <<"W">> \o Pad2(w) \o <<" ", "S", "u", "n", " ", "LR", " (">>
    \o Digits(ExpectedKm(w)) \o <<"km)">> \o ExpectedSuffix(w) \o <<" ">>
    \o PLAN_PREFIX

\* C2: with planWeeks=18, raceDistance=16, currentLongRun=8 the Sunday long
\* run of week w is 8 km [TAPER] for w in {17,18}, 16 km [RACE TEST] for
\* w = 16, 8 km [RECOVERY] for w in {4,8,12} and 8 + floor(8/15*(w-1)) km
\* without suffix otherwise, never more than 16 km.
C2_LongRunRule ==
  plan_runs > 0 =>
    \A w \in Weeks :
      /\ ExpectedKm(w) <= 16
      /\ SlotDate(w, 6) >= cutoff_date =>
           \E i \in DOMAIN events :
             /\ events[i].start_date_local.date = SlotDate(w, 6)
             /\ events[i].name = ExpectedSunName(w)

\* a run before the plan starts: all 72 events, all 18 Sundays
C2_Witness ==
  /\ plan_runs > 0
  /\ cutoff_date <= PlanStart
  /\ Len(events) = 72
  /\ events[64].name = ExpectedSunName(16)

\* C3: within one generated plan no two events share an external_id, and a
\* second run with the same parameters and the same today, with the same or
\* another dose, gives every corresponding event the same external_id.
C3_ExternalIdStable ==
  /\ \A i, j \in DOMAIN events :
       i # j => events[i].external_id # events[j].external_id
  /\ plan_runs >= 2 =>
       /\ Len(prev_events) = Len(events)
       /\ \A i \in DOMAIN events :
            /\ prev_events[i].start_date_local = events[i].start_date_local
            /\ prev_events[i].external_id = events[i].external_id

\* two runs with different doses over the whole plan
C3_Witness ==
  /\ plan_runs >= 2
  /\ Len(events) = 72
  /\ prev_events[1].description # events[1].description
  /\ prev_events[1].external_id = events[1].external_id

(***************************************************************************)
(* Claims about calculate_trend (SpecTrend)                                *)
(***************************************************************************)
TextOf(field) == IF field.k = "str" THEN field.v ELSE <<>>
Matching == {activities[i] : i \in {j \in DOMAIN activities :
                                      ContainsLower(PLAN_PREFIX, TextOf(activities[j].name))}}
LaterThan(a) == {b \in Matching : StampLess(a.start_date_local, b.start_date_local)}

\* C4: in whatever order the service returns the activities, the runs whose
\* streams calculate_trend fetches are the three matching activities with the
\* latest start timestamps, most recent first (all of them when fewer match).
C4_FetchesThreeLatest ==
  (t_pc = "returned" /\ trend_result.found_data) =>
    /\ Len(fetched) = IF Cardinality(Matching) < 3 THEN Cardinality(Matching) ELSE 3
    /\ \A k \in DOMAIN fetched :
         \E a \in Matching : a.id = fetched[k] /\ Cardinality(LaterThan(a)) = k - 1

\* the calendar events that carry a dose: the name holds the plan prefix and
\* description + " " + name holds the FUEL pattern
CalendarHits ==
  {i \in DOMAIN cal_events :
     /\ ContainsLower(PLAN_PREFIX, TextOf(cal_events[i].name))
     /\ FuelSearch(TextOf(cal_events[i].description) \o <<" ">>
                     \o TextOf(cal_events[i].name)).found}

FirstCalendarHit == CHOOSE i \in CalendarHits : \A j \in CalendarHits : i <= j

C5_AtFuelReturn ==
  t_pc = "fuel_done" =>
    /\ last_run \in Matching
    /\ LaterThan(last_run) = {}
    /\ IF FuelSearch(TextOf(description)).found
         THEN /\ current_fuel = FuelSearch(TextOf(description)).value
              /\ cal_asked = 0
       ELSE /\ cal_asked = last_run.start_date_local.date
            /\ IF CalendarHits = {} THEN current_fuel = 10
               ELSE current_fuel =
                      FuelSearch(TextOf(cal_events[FirstCalendarHit].description)
                                   \o <<" ">>
                                   \o TextOf(cal_events[FirstCalendarHit].name)).value

C5_AtReturn ==
  (t_pc = "returned" /\ trend_result.found_data) =>
    trend_result.current_fuel = current_fuel

C5_DoseKept ==
  (t_pc \in {"fuel_done", "loop"}) => current_fuel' = current_fuel

\* C5: when an activity matches the plan prefix, the returned dose comes from
\* the matching activity with the latest start timestamp: the first FUEL: <n>g
\* of its description, ignoring case; else that of description+name of the
\* first event of that day whose name holds the prefix; else the default 10.
\* A description match wins (the calendar is not asked), and an empty or
\* failed calendar answer gives the default.
C5_DosePrecedence ==
  /\ [](C5_AtFuelReturn /\ C5_AtReturn)
  /\ [][C5_DoseKept]_vars

\* the latest run is not the first of the list, its description holds no
\* dose, and the day's third event is skipped for the second one's dose
C5_Witness ==
  /\ t_pc = "fuel_done"
  /\ last_run # relevant_runs[1]
  /\ description # Absent
  /\ Len(cal_events) = 3
  /\ current_fuel = 7

\* C6: whatever the service answers, malformed or missing fields included,
\* calculate_trend ends with a result triple and never with an exception.
C6_NeverRaises == t_pc # "raised"

(***************************************************************************)
(* Claims about the session and the commit (Spec)                          *)
(***************************************************************************)
\* the workouts of a calendar that start at or after the session's now
FutureWorkouts(cal) ==
  {e \in cal : e.category = "WORKOUT"
                 /\ IsoLeq(<<now.date, now.hour>>, e.start_date_local)}

\* C7: the commit is atomic for the caller: after every execute_update, a
\* failed DELETE or POST included, the calendar's future workouts are as they
\* were before or the whole new plan is in the calendar, and a count is
\* reported only for a plan that was uploaded.
C7_CommitAtomic ==
  commit.status # "none" =>
    /\ \/ FutureWorkouts(calendar) = FutureWorkouts(commit.before)
       \/ commit.plan \subseteq calendar
    /\ commit.status = "done" => commit.plan \subseteq calendar

\* C8: the fuel strategy is never negative: the current dose recovered from
\* history, the suggested dose (current+5 on a crash, current-5 on a spike
\* only when current > 10, else current), and the dose a decision hands to
\* generate_plan (suggested, kept or manual) are all >= 0.
C8_FuelNonNegative ==
  /\ ss_current_fuel # Unset => ss_current_fuel.v >= 0
  /\ suggested # Unset =>
       /\ suggested.v >= 0
       /\ suggested.v =
            IF ss_avg_trend[1] < (-3) * ss_avg_trend[2]
              THEN ss_current_fuel.v + 5
            ELSE IF ss_avg_trend[1] > 3 * ss_avg_trend[2] /\ ss_current_fuel.v > 10
              THEN ss_current_fuel.v - 5
            ELSE ss_current_fuel.v
  /\ final_fuel # Unset => final_fuel.v >= 0
  /\ (pc = "step3" /\ ready_to_upload /\ pressed = "accept") =>
       final_fuel = suggested
  /\ (pc = "step3" /\ ready_to_upload /\ pressed = "keep") =>
       final_fuel = ss_current_fuel

\* Accept pressed on a spike with a dose under 10: the dose stays, and goes
\* to the commit
C8_Witness ==
  /\ pc = "step3"
  /\ pressed = "accept"
  /\ ready_to_upload
  /\ ss_avg_trend[1] > 3 * ss_avg_trend[2]
  /\ ss_current_fuel.v < 5
  /\ final_fuel = ss_current_fuel

FlagState(complete, ready) ==
  IF ~complete /\ ~ready THEN "Idle"
  ELSE IF complete /\ ~ready THEN "Analyzed"
  ELSE IF complete /\ ready THEN "ReadyToCommit"
  ELSE "Invalid"

Committed == commit.status # "none"

\* C9: the flags only take the states Idle, Analyzed and ReadyToCommit and
\* only move along Idle -> Analyzed -> ReadyToCommit -> Idle; every commit is
\* preceded by an Analyze and a decision since the commit before; after a
\* commit step the session is back in Idle.
C9_FlagCycle ==
  [][ LET a == FlagState(analysis_complete, ready_to_upload)
          b == FlagState(analysis_complete', ready_to_upload')
      IN /\ b # "Invalid"
         /\ \/ a = b
            \/ <<a, b>> \in {<<"Idle", "Analyzed">>,
                             <<"Analyzed", "ReadyToCommit">>,
                             <<"ReadyToCommit", "Idle">>}
         /\ (~Committed /\ Committed') => (fresh_analysis /\ fresh_decision)
         /\ (~Committed /\ commit'.status = "done") => b = "Idle" ]_vars

\* C10: every generated event, the [TAPER] long runs of weeks 17 and 18
\* included, is dated strictly before the race date.
C10_AllBeforeRace ==
  \A i \in DOMAIN events : events[i].start_date_local.date < RACE_DATE

====
